---- MODULE Spec2Model ----
(***************************************************************************)
(* Model of the heuristics crate (src/src/lib.rs): the markdown parser     *)
(* parse_markdown, the inverted index built by HeuristicDb::new, and the   *)
(* queries search, by_category and categories.                             *)
(*                                                                         *)
(* Strings are TLA+ strings; a character is a string of length one.        *)
(* Vec<T> is a sequence, Option<T> is a sequence of length 0 or 1, and a   *)
(* position in the heuristics vector is 1-based here (0-based in Rust).    *)
(* A TLA+ string literal cannot hold the backquote character (U+0060), so  *)
(* the model writes it as the circumflex (U+005E), which the program does  *)
(* not otherwise treat specially and which also sorts between Z and a.     *)
(***************************************************************************)
EXTENDS Integers, Sequences, FiniteSets, TLC

(***************************************************************************)
(* Bounds of the model.                                                    *)
(***************************************************************************)
\* number of lines of an input document
MaxLines == 4
\* number of records handed to HeuristicDb::new
MaxRecords == 2
\* number of terms of one search
MaxTerms == 2

(***************************************************************************)
(* str primitives of the Rust standard library, as the code uses them.     *)
(***************************************************************************)
UpperChars == "ABCDEFGHIJKLMNOPQRSTUVWXYZ"
LowerChars == "abcdefghijklmnopqrstuvwxyz"

\* the characters of the model in ascending code-point order
CharOrder == " #*,-:ABCDEFGHIJKLMNOPQRSTUVWXYZ^abcdefghijklmnopqrstuvwxyz"

CharAt(s, i) == SubSeq(s, i, i)

\* the code point of a character, as its place in CharOrder
OrdTable == [c \in {CharAt(CharOrder, i) : i \in 1..Len(CharOrder)} |->
                CHOOSE i \in 1..Len(CharOrder) : CharAt(CharOrder, i) = c]

Ord(c) == OrdTable[c]

IsWhitespace(c) == c \in {" ", "\n", "\t"}

\* char::to_lowercase on the letters that have a lowercase form
LowerTable == [c \in {CharAt(UpperChars, i) : i \in 1..Len(UpperChars)} |->
                CharAt(LowerChars, CHOOSE i \in 1..Len(UpperChars) : CharAt(UpperChars, i) = c)]

LowerChar(c) == IF c \in DOMAIN LowerTable THEN LowerTable[c] ELSE c

RECURSIVE ToLowercase(_)
ToLowercase(s) ==
    IF s = "" THEN ""
    ELSE LowerChar(CharAt(s, 1)) \o ToLowercase(SubSeq(s, 2, Len(s)))

\* str::contains: t occurs in s as a substring (the empty string always does)
Contains(s, t) ==
    \E i \in 0..(Len(s) - Len(t)) : SubSeq(s, i + 1, i + Len(t)) = t

StartsWith(s, p) == Len(p) <= Len(s) /\ SubSeq(s, 1, Len(p)) = p

EndsWith(s, p) == Len(p) <= Len(s) /\ SubSeq(s, Len(s) - Len(p) + 1, Len(s)) = p

\* str::strip_prefix
StripPrefix(s, p) ==
    IF StartsWith(s, p) THEN <<SubSeq(s, Len(p) + 1, Len(s))>> ELSE <<>>

\* str::strip_suffix
StripSuffix(s, p) ==
    IF EndsWith(s, p) THEN <<SubSeq(s, 1, Len(s) - Len(p))>> ELSE <<>>

RECURSIVE TrimStart(_)
TrimStart(s) ==
    IF s # "" /\ IsWhitespace(CharAt(s, 1)) THEN TrimStart(SubSeq(s, 2, Len(s))) ELSE s

RECURSIVE TrimEnd(_)
TrimEnd(s) ==
    IF s # "" /\ IsWhitespace(CharAt(s, Len(s)))
    THEN TrimEnd(SubSeq(s, 1, Len(s) - 1)) ELSE s

\* str::trim
Trim(s) == TrimEnd(TrimStart(s))

\* position of the first occurrence of t in s, 0 when there is none
Find(s, t) ==
    IF Contains(s, t)
    THEN CHOOSE i \in 1..(Len(s) - Len(t) + 1) :
            /\ SubSeq(s, i, i + Len(t) - 1) = t
            /\ \A j \in 1..(i - 1) : SubSeq(s, j, j + Len(t) - 1) # t
    ELSE 0

\* str::split(t) collected, for a non-empty separator t
RECURSIVE Split(_, _)
Split(s, t) ==
    IF Find(s, t) = 0 THEN <<s>>
    ELSE <<SubSeq(s, 1, Find(s, t) - 1)>>
            \o Split(SubSeq(s, Find(s, t) + Len(t), Len(s)), t)

\* Iterator::nth(n) (n counted from 0)
Nth(seq, n) == IF n + 1 <= Len(seq) THEN <<seq[n + 1]>> ELSE <<>>

\* Vec::contains
VecContains(seq, x) == \E i \in 1..Len(seq) : seq[i] = x

(***************************************************************************)
(* extract_keywords, extract_crate_name, extract_code_name.                *)
(***************************************************************************)
terms ==
    << "hash", "hashmap", "hashset", "btree", "binary search", "lookup", "insert",
       "cache", "lru", "ttl", "bloom", "filter", "probabilistic",
       "disk", "persistence", "wal", "log", "lsm", "compression",
       "distributed", "shard", "replicate", "consensus", "crdt", "merkle",
       "concurrent", "lock-free", "atomic", "skip list",
       "trie", "prefix", "autocomplete", "heap", "priority queue",
       "geospatial", "rtree", "quadtree", "rope", "text",
       "event sourcing", "time-series", "batch", "async", "append-only",
       "performance", "throughput", "latency", "columnar", "parquet" >>

\* the loop of extract_keywords from vocabulary term i on
RECURSIVE ExtractFrom(_, _, _)
ExtractFrom(lower, keywords, i) ==
    IF i > Len(terms) THEN keywords
    ELSE IF Contains(lower, terms[i]) /\ ~VecContains(keywords, terms[i])
         THEN ExtractFrom(lower, Append(keywords, terms[i]), i + 1)
         ELSE ExtractFrom(lower, keywords, i + 1)

extract_keywords(text, keywords) == ExtractFrom(ToLowercase(text), keywords, 1)

extract_crate_name(line) ==
    IF StripPrefix(Trim(line), "- ^") = <<>> THEN <<>>
    ELSE <<Split(StripPrefix(Trim(line), "- ^")[1], "^")[1]>>

extract_code_name(text) ==
    IF StripPrefix(Trim(text), "^") = <<>> THEN <<>>
    ELSE StripSuffix(StripPrefix(Trim(text), "^")[1], "^")

(***************************************************************************)
(* parse_markdown: the state of the loop over content.lines().             *)
(***************************************************************************)
VARIABLES
    pc,                 \* "parsing", "parsed" (parse_markdown), "db" (HeuristicDb)
    lines,              \* the lines of content consumed so far
    heuristics,
    current_category,
    current_title,
    current_action,
    current_content,
    current_crates,
    current_std_types,
    current_keywords,
    in_heuristic,
    db,                 \* the HeuristicDb: [heuristics, index]
    op,                 \* the last method called on db
    arg,                \* its argument
    scores,             \* the scores map of the last call, if it was a search
    result              \* what it returned

parser_vars == <<lines, heuristics, current_category, current_title, current_action,
                 current_content, current_crates, current_std_types,
                 current_keywords, in_heuristic>>
db_vars == <<db, op, arg, scores, result>>
vars == <<pc, parser_vars, db_vars>>

\* the locals of parse_markdown as one value
Locals ==
    [ heuristics |-> heuristics,
      current_category |-> current_category,
      current_title |-> current_title,
      current_action |-> current_action,
      current_content |-> current_content,
      current_crates |-> current_crates,
      current_std_types |-> current_std_types,
      current_keywords |-> current_keywords,
      in_heuristic |-> in_heuristic ]

InitLocals ==
    [ heuristics |-> <<>>,
      current_category |-> "",
      current_title |-> "",
      current_action |-> "",
      current_content |-> "",
      current_crates |-> <<>>,
      current_std_types |-> <<>>,
      current_keywords |-> <<>>,
      in_heuristic |-> FALSE ]

\* the save without the test of the title
SaveHeuristicAnyTitle(st) ==
    IF st.in_heuristic
    THEN Append(st.heuristics,
                [ title |-> st.current_title,
                  action |-> st.current_action,
                  category |-> st.current_category,
                  content |-> Trim(st.current_content),
                  crates |-> st.current_crates,
                  std_types |-> st.current_std_types,
                  keywords |-> st.current_keywords ])
    ELSE st.heuristics

\* "Save previous heuristic if exists" / "Save last heuristic"
SaveHeuristic(st) ==
    IF st.in_heuristic /\ st.current_title # ""
    THEN Append(st.heuristics,
                [ title |-> st.current_title,
                  action |-> st.current_action,
                  category |-> st.current_category,
                  content |-> Trim(st.current_content),
                  crates |-> st.current_crates,
                  std_types |-> st.current_std_types,
                  keywords |-> st.current_keywords ])
    ELSE st.heuristics

IsCategoryHeader(line) == StartsWith(line, "## ")

IsHeuristicHeader(line) == ~IsCategoryHeader(line) /\ StartsWith(line, "### ")

\* a "## " line
OnCategoryHeader(st, line) ==
    [ heuristics |-> SaveHeuristic(st),
      current_category |-> Trim(StripPrefix(line, "## ")[1]),
      in_heuristic |-> FALSE,
      current_title |-> "",
      current_action |-> "",
      current_content |-> "",
      current_crates |-> <<>>,
      current_std_types |-> <<>>,
      current_keywords |-> <<>> ]

\* a "### " line that forgets to clear the keywords of the entry before
OnHeuristicHeaderKeepKeywords(st, line) ==
    [ heuristics |-> SaveHeuristic(st),
      current_category |-> st.current_category,
      current_title |-> Trim(StripPrefix(line, "### ")[1]),
      current_content |-> line \o "\n",
      in_heuristic |-> TRUE,
      current_action |-> "",
      current_crates |-> <<>>,
      current_std_types |-> <<>>,
      current_keywords |->
          extract_keywords(Trim(StripPrefix(line, "### ")[1]), st.current_keywords) ]

\* a "### " line
OnHeuristicHeader(st, line) ==
    [ heuristics |-> SaveHeuristic(st),
      current_category |-> st.current_category,
      current_title |-> Trim(StripPrefix(line, "### ")[1]),
      current_content |-> line \o "\n",
      in_heuristic |-> TRUE,
      current_action |-> "",
      current_crates |-> <<>>,
      current_std_types |-> <<>>,
      current_keywords |-> extract_keywords(Trim(StripPrefix(line, "### ")[1]), <<>>) ]

\* "Extract action"
AfterAction(st, line) ==
    IF StripPrefix(line, "**Action:**") # <<>>
    THEN [st EXCEPT
            !.current_action = Trim(StripPrefix(line, "**Action:**")[1]),
            !.current_keywords =
                extract_keywords(Trim(StripPrefix(line, "**Action:**")[1]),
                                 st.current_keywords)]
    ELSE st

\* "Extract crates"
AfterCrates(st, line) ==
    IF Contains(line, "- **Crates:**") THEN st
    ELSE IF StartsWith(Trim(line), "- ^") /\ Contains(line, "^ -")
              /\ extract_crate_name(line) # <<>>
         THEN [st EXCEPT
                 !.current_crates = Append(@, extract_crate_name(line)[1]),
                 !.current_keywords = Append(@, extract_crate_name(line)[1])]
         ELSE st

\* the loop over the comma-separated parts from part i on
RECURSIVE PushStdTypes(_, _, _)
PushStdTypes(st, parts, i) ==
    IF i > Len(parts) THEN st
    ELSE IF extract_code_name(Trim(parts[i])) # <<>>
         THEN PushStdTypes(
                 [st EXCEPT
                    !.current_std_types = Append(@, extract_code_name(Trim(parts[i]))[1]),
                    !.current_keywords = Append(@, extract_code_name(Trim(parts[i]))[1])],
                 parts, i + 1)
         ELSE PushStdTypes(st, parts, i + 1)

\* "Extract std types"
AfterStdTypes(st, line) ==
    IF Contains(line, "- **Std types:**")
          /\ Nth(Split(line, "**Std types:**"), 1) # <<>>
    THEN PushStdTypes(st, Split(Nth(Split(line, "**Std types:**"), 1)[1], ","), 1)
    ELSE st

\* "Extract keywords from various patterns"
AfterWhenToUse(st, line) ==
    IF Contains(line, "**When to use:**")
          /\ Nth(Split(line, "**When to use:**"), 1) # <<>>
    THEN [st EXCEPT
            !.current_keywords =
                extract_keywords(Nth(Split(line, "**When to use:**"), 1)[1],
                                 st.current_keywords)]
    ELSE st

\* any other line while in_heuristic
OnContentLine(st, line) ==
    AfterWhenToUse(
        AfterStdTypes(
            AfterCrates(
                AfterAction([st EXCEPT !.current_content = @ \o line \o "\n"], line),
                line),
            line),
        line)

\* one iteration of "for line in content.lines()"
Step(st, line) ==
    IF IsCategoryHeader(line) THEN OnCategoryHeader(st, line)
    ELSE IF StartsWith(line, "### ") THEN OnHeuristicHeader(st, line)
    ELSE IF st.in_heuristic THEN OnContentLine(st, line)
    ELSE st

\* parse_markdown as a function of the lines of its input
RECURSIVE ParseFrom(_, _, _)
ParseFrom(st, ls, i) ==
    IF i > Len(ls) THEN SaveHeuristic(st)
    ELSE ParseFrom(Step(st, ls[i]), ls, i + 1)

parse_markdown(ls) == ParseFrom(InitLocals, ls, 1)

(***************************************************************************)
(* The input documents of the model: every sequence of at most MaxLines    *)
(* of these lines.                                                         *)
(***************************************************************************)
LinePool ==
    { "## Foo",
      "## ",
      "### hash",
      "### Text",
      "### ",
      "**Action:** use lru",
      "- ^hash^ - x",
      "- **Std types:** ^Vec^, ^hash^",
      "**When to use:** ttl",
      "text" }

SetLocals(st) ==
    /\ heuristics' = st.heuristics
    /\ current_category' = st.current_category
    /\ current_title' = st.current_title
    /\ current_action' = st.current_action
    /\ current_content' = st.current_content
    /\ current_crates' = st.current_crates
    /\ current_std_types' = st.current_std_types
    /\ current_keywords' = st.current_keywords
    /\ in_heuristic' = st.in_heuristic

NoDb == [heuristics |-> <<>>, index |-> <<>>]

ParseInit ==
    /\ pc = "parsing"
    /\ lines = <<>>
    /\ heuristics = <<>>
    /\ current_category = ""
    /\ current_title = ""
    /\ current_action = ""
    /\ current_content = ""
    /\ current_crates = <<>>
    /\ current_std_types = <<>>
    /\ current_keywords = <<>>
    /\ in_heuristic = FALSE
    /\ db = NoDb
    /\ op = "none"
    /\ arg = ""
    /\ scores = <<>>
    /\ result = <<>>

NextLine(line) ==
    /\ pc = "parsing"
    /\ Len(lines) < MaxLines
    /\ lines' = Append(lines, line)
    /\ pc' = pc
    /\ UNCHANGED db_vars

CategoryHeader ==
    \E line \in LinePool :
        /\ NextLine(line)
        /\ IsCategoryHeader(line)
        /\ \E st \in {Step(Locals, line)} : SetLocals(st)

HeuristicHeader ==
    \E line \in LinePool :
        /\ NextLine(line)
        /\ IsHeuristicHeader(line)
        /\ \E st \in {Step(Locals, line)} : SetLocals(st)

ContentLine ==
    \E line \in LinePool :
        /\ NextLine(line)
        /\ ~IsCategoryHeader(line) /\ ~IsHeuristicHeader(line)
        /\ in_heuristic
        /\ \E st \in {Step(Locals, line)} : SetLocals(st)

IgnoredLine ==
    \E line \in LinePool :
        /\ NextLine(line)
        /\ ~IsCategoryHeader(line) /\ ~IsHeuristicHeader(line)
        /\ ~in_heuristic
        /\ \E st \in {Step(Locals, line)} : SetLocals(st)

\* the end of content.lines(): "Save last heuristic" and return
EndOfInput ==
    /\ pc = "parsing"
    /\ pc' = "parsed"
    /\ heuristics' = SaveHeuristic(Locals)
    /\ UNCHANGED <<lines, current_category, current_title, current_action,
                   current_content, current_crates, current_std_types,
                   current_keywords, in_heuristic>>
    /\ UNCHANGED db_vars

ParseNext ==
    \/ CategoryHeader
    \/ HeuristicHeader
    \/ ContentLine
    \/ IgnoredLine
    \/ EndOfInput

Spec == ParseInit /\ [][ParseNext]_vars

(***************************************************************************)
(* HeuristicDb::new: the inverted index, lowercase token -> positions.     *)
(* A HashMap is a function whose domain is its set of keys.                *)
(***************************************************************************)
EmptyMap == <<>>

\* index.entry(key).or_default().push(idx)
EntryPush(index, key, idx) ==
    IF key \in DOMAIN index
    THEN [index EXCEPT ![key] = Append(@, idx)]
    ELSE index @@ (key :> <<idx>>)

\* one of the loops "for keyword in ..." from element i on
RECURSIVE IndexAll(_, _, _, _)
IndexAll(index, names, idx, i) ==
    IF i > Len(names) THEN index
    ELSE IndexAll(EntryPush(index, ToLowercase(names[i]), idx), names, idx, i + 1)

\* the body of "for (idx, heuristic) in heuristics.iter().enumerate()"
IndexHeuristic(index, heuristic, idx) ==
    EntryPush(
        IndexAll(
            IndexAll(
                IndexAll(index, heuristic.keywords, idx, 1),
                heuristic.crates, idx, 1),
            heuristic.std_types, idx, 1),
        ToLowercase(heuristic.category), idx)

RECURSIVE IndexFrom(_, _, _)
IndexFrom(index, hs, idx) ==
    IF idx > Len(hs) THEN index
    ELSE IndexFrom(IndexHeuristic(index, hs[idx], idx), hs, idx + 1)

New(hs) == [heuristics |-> hs, index |-> IndexFrom(EmptyMap, hs, 1)]

(***************************************************************************)
(* HeuristicDb::search.                                                    *)
(***************************************************************************)
\* keyword.to_lowercase() taken as the identity
normalized_as_is(keyword) == keyword

\* let normalized = keyword.to_lowercase()
normalized(keyword) == ToLowercase(keyword)

\* "for &idx in indices { *scores.entry(idx).or_default() += n }" from i on
RECURSIVE AddScores(_, _, _, _)
AddScores(tally, indices, n, i) ==
    IF i > Len(indices) THEN tally
    ELSE AddScores(
            IF indices[i] \in DOMAIN tally
            THEN [tally EXCEPT ![indices[i]] = @ + n]
            ELSE tally @@ (indices[i] :> n),
            indices, n, i + 1)

\* exact matches that add nothing
ExactMatchesNoBonus(tally, index, n) == tally

\* "Exact matches"
ExactMatches(tally, index, n) ==
    IF n \in DOMAIN index THEN AddScores(tally, index[n], 2, 1) ELSE tally

\* partial matches that test only whether the indexed keyword contains the term
RECURSIVE PartialMatchesOneWay(_, _, _, _)
PartialMatchesOneWay(tally, index, n, keys) ==
    IF keys = {} THEN tally
    ELSE LET indexed_keyword == CHOOSE k \in keys : TRUE IN
         PartialMatchesOneWay(
            IF Contains(indexed_keyword, n)
            THEN AddScores(tally, index[indexed_keyword], 1, 1)
            ELSE tally,
            index, n, keys \ {indexed_keyword})

\* "Partial matches" over the keys not yet visited; the additions commute, so
\* the order in which the HashMap yields its keys does not show in the scores
RECURSIVE PartialMatches(_, _, _, _)
PartialMatches(tally, index, n, keys) ==
    IF keys = {} THEN tally
    ELSE LET indexed_keyword == CHOOSE k \in keys : TRUE IN
         PartialMatches(
            IF Contains(indexed_keyword, n) \/ Contains(n, indexed_keyword)
            THEN AddScores(tally, index[indexed_keyword], 1, 1)
            ELSE tally,
            index, n, keys \ {indexed_keyword})

\* "for keyword in keywords" from keyword i on
RECURSIVE ScoreFrom(_, _, _, _)
ScoreFrom(tally, index, keywords, i) ==
    IF i > Len(keywords) THEN tally
    ELSE ScoreFrom(
            PartialMatches(
                ExactMatches(tally, index, normalized(keywords[i])),
                index, normalized(keywords[i]), DOMAIN index),
            index, keywords, i + 1)

Scores(index, keywords) == ScoreFrom(EmptyMap, index, keywords, 1)

\* every order in which scores.into_iter() can yield the entries of the map
Orders(S) ==
    {o \in [1..Cardinality(S) -> S] : \A i, j \in 1..Cardinality(S) : i # j => o[i] # o[j]}

\* the place of x in a sequence sorted by descending score: after every
\* element that does not come after it (sort_by is stable)
RECURSIVE InsertByScore(_, _, _)
InsertByScore(sorted, x, tally) ==
    IF sorted = <<>> THEN <<x>>
    ELSE IF tally[sorted[Len(sorted)]] >= tally[x] THEN Append(sorted, x)
         ELSE Append(InsertByScore(SubSeq(sorted, 1, Len(sorted) - 1), x, tally),
                     sorted[Len(sorted)])

\* results.sort_by(|a, b| b.1.cmp(&a.1)) of the first n elements
RECURSIVE SortPrefix(_, _, _)
SortPrefix(results, tally, n) ==
    IF n = 0 THEN <<>>
    ELSE InsertByScore(SortPrefix(results, tally, n - 1), results[n], tally)

\* the sort with the comparison the other way round, a.1.cmp(&b.1)
RECURSIVE InsertByScoreAscending(_, _, _)
InsertByScoreAscending(sorted, x, tally) ==
    IF sorted = <<>> THEN <<x>>
    ELSE IF tally[sorted[Len(sorted)]] <= tally[x] THEN Append(sorted, x)
         ELSE Append(InsertByScoreAscending(SubSeq(sorted, 1, Len(sorted) - 1), x, tally),
                     sorted[Len(sorted)])

RECURSIVE SortPrefixAscending(_, _, _)
SortPrefixAscending(results, tally, n) ==
    IF n = 0 THEN <<>>
    ELSE InsertByScoreAscending(SortPrefixAscending(results, tally, n - 1),
                                results[n], tally)

SortByScoreAscending(results, tally) == SortPrefixAscending(results, tally, Len(results))

SortByScore(results, tally) == SortPrefix(results, tally, Len(results))

(***************************************************************************)
(* HeuristicDb::by_category and HeuristicDb::categories.                   *)
(***************************************************************************)
\* the filter that compares the names as they are
RECURSIVE by_category_exact_case(_, _)
by_category_exact_case(hs, category) ==
    IF hs = <<>> THEN <<>>
    ELSE by_category_exact_case(SubSeq(hs, 1, Len(hs) - 1), category)
            \o (IF hs[Len(hs)].category = category THEN <<Len(hs)>> ELSE <<>>)

\* the positions of the records the filter keeps
RECURSIVE by_category(_, _)
by_category(hs, category) ==
    IF hs = <<>> THEN <<>>
    ELSE by_category(SubSeq(hs, 1, Len(hs) - 1), category)
            \o (IF ToLowercase(hs[Len(hs)].category) = ToLowercase(category)
                THEN <<Len(hs)>> ELSE <<>>)

\* Ord for str: lexicographic by character, a proper prefix first
RECURSIVE StrLessEq(_, _)
StrLessEq(a, b) ==
    IF a = "" THEN TRUE
    ELSE IF b = "" THEN FALSE
    ELSE IF CharAt(a, 1) = CharAt(b, 1)
         THEN StrLessEq(SubSeq(a, 2, Len(a)), SubSeq(b, 2, Len(b)))
         ELSE Ord(CharAt(a, 1)) < Ord(CharAt(b, 1))

RECURSIVE InsertSorted(_, _)
InsertSorted(sorted, x) ==
    IF sorted = <<>> THEN <<x>>
    ELSE IF StrLessEq(sorted[Len(sorted)], x) THEN Append(sorted, x)
         ELSE Append(InsertSorted(SubSeq(sorted, 1, Len(sorted) - 1), x),
                     sorted[Len(sorted)])

\* cats.sort()
RECURSIVE Sort(_)
Sort(cats) ==
    IF cats = <<>> THEN <<>>
    ELSE InsertSorted(Sort(SubSeq(cats, 1, Len(cats) - 1)), cats[Len(cats)])

\* a dedup that removes nothing
DedupNothing(cats) == cats

\* cats.dedup(): of every run of equal consecutive elements the first stays
RECURSIVE Dedup(_)
Dedup(cats) ==
    IF Len(cats) <= 1 THEN cats
    ELSE IF cats[Len(cats)] = cats[Len(cats) - 1]
         THEN Dedup(SubSeq(cats, 1, Len(cats) - 1))
         ELSE Append(Dedup(SubSeq(cats, 1, Len(cats) - 1)), cats[Len(cats)])

categories(hs) == Dedup(Sort([i \in 1..Len(hs) |-> hs[i].category]))

(***************************************************************************)
(* The databases and the calls of the model.                               *)
(***************************************************************************)
Record(category, keywords, crates, std_types) ==
    [ title |-> "T", action |-> "", category |-> category, content |-> "### T",
      crates |-> crates, std_types |-> std_types, keywords |-> keywords ]

HeuristicPool ==
    { Record("Foo", <<"hashmap">>, <<>>, <<>>),
      Record("foo", <<"hashmapx">>, <<"serde">>, <<"Vec">>),
      Record("HashMap", <<"hashmapx">>, <<"hashmap">>, <<>>),
      Record("Bar", <<"hash", "lru">>, <<>>, <<>>) }

RECURSIVE SeqsUpTo(_, _)
SeqsUpTo(S, n) ==
    IF n = 0 THEN {<<>>}
    ELSE SeqsUpTo(S, n - 1) \cup {Append(q, x) : q \in SeqsUpTo(S, n - 1), x \in S}

TermPool == {"hashmap", "HashMap", "lru"}

NamePool == {"Foo", "FOO", "Bar", "none"}

\* a database built by HeuristicDb::new from records of the pool, no call yet
DbInitFrom(pool) ==
    /\ pc = "db"
    /\ lines = <<>>
    /\ heuristics = <<>>
    /\ current_category = ""
    /\ current_title = ""
    /\ current_action = ""
    /\ current_content = ""
    /\ current_crates = <<>>
    /\ current_std_types = <<>>
    /\ current_keywords = <<>>
    /\ in_heuristic = FALSE
    /\ \E hs \in SeqsUpTo(pool, MaxRecords) : db = New(hs)
    /\ op = "none"
    /\ arg = ""
    /\ scores = <<>>
    /\ result = <<>>

DbInit == DbInitFrom(HeuristicPool)

\* db.search(keywords) with terms of the pool: the positions of the records
\* returned, in order
SearchIn(pool) ==
    /\ pc = "db"
    /\ \E keywords \in SeqsUpTo(pool, MaxTerms) :
        \E tally \in {Scores(db.index, keywords)} :
        \E results \in Orders(DOMAIN tally) :
            /\ op' = "search"
            /\ arg' = keywords
            /\ scores' = tally
            /\ result' = SortByScore(results, tally)
    /\ UNCHANGED <<pc, parser_vars, db>>

Search == SearchIn(TermPool)

\* db.by_category(category): the positions of the records returned, in order
ByCategory ==
    /\ pc = "db"
    /\ \E category \in NamePool :
            /\ op' = "by_category"
            /\ arg' = category
            /\ scores' = <<>>
            /\ result' = by_category(db.heuristics, category)
    /\ UNCHANGED <<pc, parser_vars, db>>

\* db.categories()
Categories ==
    /\ pc = "db"
    /\ op' = "categories"
    /\ arg' = ""
    /\ scores' = <<>>
    /\ result' = categories(db.heuristics)
    /\ UNCHANGED <<pc, parser_vars, db>>

DbNext ==
    \/ Search
    \/ ByCategory
    \/ Categories

SpecDb == DbInit /\ [][DbNext]_vars

(***************************************************************************)
(* Databases with an empty token (an empty category, as parse_markdown     *)
(* gives an entry before any category header, or an empty std type, as it  *)
(* gives for a pair of backquotes), searched with terms that may be empty. *)
(***************************************************************************)
EmptyTokenPool ==
    { Record("", <<"lru">>, <<>>, <<>>),
      Record("Foo", <<"hash">>, <<>>, <<"">>),
      Record("Bar", <<"hashmap">>, <<"serde">>, <<>>) }

EmptyTermPool == {"", "lru", "zz"}

EmptyInit == DbInitFrom(EmptyTokenPool)

SearchEmpty == SearchIn(EmptyTermPool)

EmptyNext == SearchEmpty

SpecEmpty == EmptyInit /\ [][EmptyNext]_vars

(***************************************************************************)
(* Properties of parse_markdown.                                           *)
(***************************************************************************)
Range(seq) == {seq[i] : i \in 1..Len(seq)}

NoDuplicates(seq) == \A i, j \in 1..Len(seq) : i # j => seq[i] # seq[j]

\* C2: no record returned by parse_markdown has an empty title or an empty
\* category (an entry header before any category header, or under an empty
\* category name, or with an empty title, is dropped).
C2_NoEmptyTitleOrCategory ==
    \A i \in 1..Len(heuristics) :
        heuristics[i].title # "" /\ heuristics[i].category # ""

\* C6: the keywords of every record produced by parse_markdown hold no
\* duplicate element.
C6_KeywordsDeduplicated ==
    \A i \in 1..Len(heuristics) : NoDuplicates(heuristics[i].keywords)

\* the lines of the document read as the claims read them
HasPrefix(line, p) == Len(line) >= Len(p) /\ \A k \in 1..Len(p) : CharAt(line, k) = CharAt(p, k)
CategoryLine(i) == HasPrefix(lines[i], "## ")
EntryLine(i) == HasPrefix(lines[i], "### ")
Remainder(i, n) == Trim(SubSeq(lines[i], n + 1, Len(lines[i])))
\* the entry headers that carry a title, and the position of each among them
TitledEntries == {i \in 1..Len(lines) : EntryLine(i) /\ Remainder(i, 4) # ""}
Rank(i) == Cardinality({j \in TitledEntries : j <= i})
CategoriesBefore(i) == {j \in 1..(i - 1) : CategoryLine(j)}
Nearest(S) == CHOOSE j \in S : \A k \in S : k <= j
\* the line after the block of the entry that starts at line i
BlockEnd(i) ==
    IF \E j \in (i + 1)..Len(lines) : CategoryLine(j) \/ EntryLine(j)
    THEN CHOOSE j \in (i + 1)..Len(lines) :
            /\ CategoryLine(j) \/ EntryLine(j)
            /\ \A k \in (i + 1)..(j - 1) : ~(CategoryLine(k) \/ EntryLine(k))
    ELSE Len(lines) + 1
Block(i) == SubSeq(lines, i, BlockEnd(i) - 1)

\* C9: parse_markdown emits exactly one record per entry header whose
\* trimmed title is not empty, in document order, titled by the trimmed
\* remainder of that header; and the category of an entry that follows a
\* category header is the trimmed remainder of the nearest one before it.
C9_OneRecordPerTitledEntry ==
    pc = "parsed" =>
        /\ Len(heuristics) = Cardinality(TitledEntries)
        /\ \A i \in TitledEntries :
              /\ heuristics[Rank(i)].title = Remainder(i, 4)
              /\ CategoriesBefore(i) # {} =>
                    heuristics[Rank(i)].category = Remainder(Nearest(CategoriesBefore(i)), 3)

C9_Witness ==
    /\ pc = "parsed"
    /\ Len(heuristics) = 2
    /\ heuristics[1].category # heuristics[2].category
    /\ heuristics[2].category # ""
    /\ Cardinality(CategoriesBefore(Len(lines))) = 2

\* C10: the action, content, crates, std_types and keywords of every record
\* are those of its own block of lines (from its entry header up to the next
\* header or the end of input) parsed alone, so no line outside the block,
\* and no line outside any entry, has a part in them or adds a record.
C10_EntryIsolation ==
    pc = "parsed" =>
        /\ Len(heuristics) = Cardinality(TitledEntries)
        /\ \A i \in TitledEntries :
              LET alone == parse_markdown(Block(i)) IN
              /\ Len(alone) = 1
              /\ \A f \in {"action", "content", "crates", "std_types", "keywords"} :
                    heuristics[Rank(i)][f] = alone[1][f]

C10_Witness ==
    /\ pc = "parsed"
    /\ Len(heuristics) = 2
    /\ heuristics[1].keywords # <<>>
    /\ heuristics[2].keywords # <<>>
    /\ Range(heuristics[1].keywords) \cap Range(heuristics[2].keywords) = {}
    /\ ~(CategoryLine(1) \/ EntryLine(1))

(***************************************************************************)
(* Properties of HeuristicDb.                                              *)
(***************************************************************************)
\* the sum of the values of a function over a finite part S of its domain
RECURSIVE SumOver(_, _)
SumOver(S, f) ==
    IF S = {} THEN 0
    ELSE LET x == CHOOSE y \in S : TRUE IN f[x] + SumOver(S \ {x}, f)

SumOf(f) == SumOver(DOMAIN f, f)

StrictlyIncreasing(seq) == \A a, b \in 1..Len(seq) : a < b => seq[a] < seq[b]

\* C1: the sum of by_category(c).len() over all c in categories() equals
\* all().len(), also when two categories differ only in letter case.
C1_TotalCoverage ==
    op = "categories" =>
        SumOf([k \in 1..Len(result) |-> Len(by_category(db.heuristics, result[k]))])
            = Len(db.heuristics)

\* how often position i occurs in a bucket
Occurrences(bucket, i) == Cardinality({j \in 1..Len(bucket) : bucket[j] = i})

\* what one occurrence in the bucket keyed k is worth for the lowercased term n
Worth(k, n) ==
    (IF k = n THEN 2 ELSE 0) + (IF Contains(k, n) \/ Contains(n, k) THEN 1 ELSE 0)

\* the accumulated score of position i for a list of query terms
Score(i, ts) ==
    SumOf([p \in (1..Len(ts)) \X (DOMAIN db.index) |->
              Occurrences(db.index[p[2]], i) * Worth(p[2], ToLowercase(ts[p[1]]))])

\* C3: search returns exactly the records of positive accumulated score, each
\* once, in non-increasing score order, the score being 2 per occurrence in
\* the bucket keyed by the lowercased term plus 1 per occurrence in every
\* bucket whose key contains the term or is contained in it, summed over the
\* terms; an empty term list returns nothing.
C3_SearchByScore ==
    op = "search" =>
        /\ NoDuplicates(result)
        /\ Range(result) = {i \in 1..Len(db.heuristics) : Score(i, arg) > 0}
        /\ \A a, b \in 1..Len(result) :
              a < b => Score(result[a], arg) >= Score(result[b], arg)
        /\ arg = <<>> => result = <<>>

C3_Witness ==
    /\ op = "search"
    /\ Len(arg) = 2
    /\ ToLowercase(arg[1]) # ToLowercase(arg[2])
    /\ Len(result) = 2
    /\ Score(result[1], arg) > Score(result[2], arg)
    /\ Score(result[2], arg) > Score(result[2], <<arg[1]>>)
    /\ Score(result[2], arg) > Score(result[2], <<arg[2]>>)

\* the place of position i in the result, 0 when it was not returned
Place(i) ==
    IF \E k \in 1..Len(result) : result[k] = i
    THEN CHOOSE k \in 1..Len(result) : result[k] = i
    ELSE 0

HasHashmap(i) == VecContains(db.heuristics[i].keywords, "hashmap")

OnlyHashmapx(i) ==
    /\ db.heuristics[i].keywords # <<>>
    /\ \A k \in 1..Len(db.heuristics[i].keywords) : db.heuristics[i].keywords[k] = "hashmapx"

RanksAbove(i, j) == Place(i) > 0 /\ Place(j) > 0 /\ Place(i) < Place(j)

\* C4 as stated: a record with the keyword "hashmap" ranks above a record whose
\* only keyword is "hashmapx" in search(["hashmap"]), whatever their
\* categories, crates and std types.
C4_RanksAboveWhatever ==
    (op = "search" /\ arg = <<"hashmap">>) =>
        \A i, j \in 1..Len(db.heuristics) :
            (HasHashmap(i) /\ OnlyHashmapx(j)) => RanksAbove(i, j)

\* the other tokens of record j, as they are indexed
OtherTokens(j) ==
    {ToLowercase(db.heuristics[j].category)}
        \cup {ToLowercase(db.heuristics[j].crates[k]) : k \in 1..Len(db.heuristics[j].crates)}
        \cup {ToLowercase(db.heuristics[j].std_types[k]) :
                k \in 1..Len(db.heuristics[j].std_types)}

Unrelated(j) ==
    \A tok \in OtherTokens(j) : ~Contains(tok, "hashmap") /\ ~Contains("hashmap", tok)

\* C4 amended: a record with the keyword "hashmap" ranks above a record whose
\* keywords are the single token "hashmapx" in search(["hashmap"]), provided
\* neither the category nor a crate nor a std type of the second record,
\* lowercased, contains "hashmap" or is contained in it.
C4_RanksAboveUnrelated ==
    (op = "search" /\ arg = <<"hashmap">>) =>
        \A i, j \in 1..Len(db.heuristics) :
            (HasHashmap(i) /\ db.heuristics[j].keywords = <<"hashmapx">> /\ Unrelated(j))
                => RanksAbove(i, j)

C4_Witness ==
    /\ op = "search"
    /\ arg = <<"hashmap">>
    /\ \E i, j \in 1..Len(db.heuristics) :
          /\ HasHashmap(i)
          /\ db.heuristics[j].keywords = <<"hashmapx">>
          /\ Unrelated(j)
          /\ db.heuristics[j].crates # <<>>
          /\ result = <<i, j>>

LowerAll(ts) == [k \in 1..Len(ts) |-> ToLowercase(ts[k])]

\* two searches in a row whose terms differ at most in letter case
SameQueryAgain ==
    /\ op = "search" /\ op' = "search"
    /\ Len(arg') = Len(arg)
    /\ LowerAll(arg') = LowerAll(arg)

\* C5 as stated: searching with the terms in any letter casing returns results
\* of identical length in identical order, also among records of equal score.
C5_SameOrderAnyCase == [][SameQueryAgain => result' = result]_vars

\* C5 amended: searching with the terms in any letter casing returns the same
\* records, so results of identical length, in the same order except that
\* records of equal score may change places (the score at every place of the
\* result is the same).
C5_SameScoresAnyCase ==
    [][SameQueryAgain =>
          \/ result' = result
          \/ /\ Len(result') = Len(result)
             /\ Range(result') = Range(result)
             /\ \A k \in 1..Len(result) : scores'[result'[k]] = scores[result[k]]]_vars

C5_Witness ==
    /\ op = "search"
    /\ arg # <<>>
    /\ \A k \in 1..Len(arg) : arg[k] # ToLowercase(arg[k])
    /\ Len(result) = 2
    /\ db.heuristics[1] # db.heuristics[2]
    /\ scores[1] = scores[2]

\* two characters that are equal or the two cases of one letter
SameLetter(c, d) ==
    \/ c = d
    \/ \E i \in 1..Len(UpperChars) :
          {c, d} = {CharAt(UpperChars, i), CharAt(LowerChars, i)}

EqualIgnoringCase(a, b) ==
    Len(a) = Len(b) /\ \A k \in 1..Len(a) : SameLetter(CharAt(a, k), CharAt(b, k))

\* C7: by_category(name) returns exactly the records whose category equals
\* name ignoring letter case, in document order (none when no category
\* matches).
C7_ByCategoryIgnoresCase ==
    op = "by_category" =>
        /\ StrictlyIncreasing(result)
        /\ Range(result) =
              {i \in 1..Len(db.heuristics) :
                  EqualIgnoringCase(db.heuristics[i].category, arg)}

C7_Witness ==
    /\ op = "by_category"
    /\ result = <<1, 2>>
    /\ db.heuristics[1].category # db.heuristics[2].category
    /\ arg \notin {db.heuristics[1].category, db.heuristics[2].category}

\* a comes before b in lexicographic order and differs from it
LexLess(a, b) ==
    \E n \in 0..Len(a) :
        /\ n <= Len(b)
        /\ SubSeq(a, 1, n) = SubSeq(b, 1, n)
        /\ \/ n = Len(a) /\ n < Len(b)
           \/ n < Len(a) /\ n < Len(b) /\ Ord(CharAt(a, n + 1)) < Ord(CharAt(b, n + 1))

\* C8: categories() is strictly ascending in lexicographic order, and its
\* elements are exactly the category strings of the records, case preserved.
C8_CategoriesSortedUnique ==
    op = "categories" =>
        /\ \A a, b \in 1..Len(result) : a < b => LexLess(result[a], result[b])
        /\ Range(result) = {db.heuristics[i].category : i \in 1..Len(db.heuristics)}

C8_Witness ==
    /\ op = "categories"
    /\ Len(db.heuristics) = 2
    /\ result = <<db.heuristics[2].category, db.heuristics[1].category>>
    /\ ToLowercase(result[1]) = ToLowercase(result[2])

\* the tokens record i is indexed under
IndexedTokens(i) ==
    OtherTokens(i)
        \cup {ToLowercase(db.heuristics[i].keywords[k]) :
                k \in 1..Len(db.heuristics[i].keywords)}

\* C11: a search whose terms include the empty string returns every record of
\* the database; and a record indexed under the empty string is returned by
\* every search with at least one term.
C11_EmptyStringMatchesAll ==
    op = "search" =>
        /\ VecContains(arg, "") =>
              /\ Len(result) = Len(db.heuristics)
              /\ Range(result) = 1..Len(db.heuristics)
        /\ arg # <<>> =>
              \A i \in 1..Len(db.heuristics) :
                  "" \in IndexedTokens(i) => i \in Range(result)

C11_Witness ==
    /\ op = "search"
    /\ arg = <<"">>
    /\ Len(db.heuristics) = 2
    /\ Len(result) = 2
    /\ "" \in IndexedTokens(1)
    /\ "" \notin IndexedTokens(2)

====
